---- MODULE Spec2Model ----
(***************************************************************************)
(* gridex.py: a per-directory index (_index.csv) of GeoTIFF rasters and    *)
(* its queries.  The file system is the state: every directory's listing   *)
(* and its sentinel index file.  index_directories_recursively walks the   *)
(* tree one directory per step; create_index and query_index are           *)
(* operators computed as the code computes them.                           *)
(***************************************************************************)
EXTENDS Integers, Sequences, FiniteSets, TLC

VARIABLES listing, index, before, built, pos, outcome, qres, mbr

vars == <<listing, index, before, built, pos, outcome, qres, mbr>>

\* Bounds of the model.
MaxFiles == 3      \* regular files in the whole tree
MaxCoord == 2      \* largest coordinate of a rectangle given to mbr_overlap

(***************************************************************************)
(* The directory tree and the files that can be in it.                     *)
(***************************************************************************)
INDEX_FILE == [stem |-> "_index", ext |-> "csv"]

RootDir == "root"

\* os.walk(root_directory), top-down: the root, then its subdirectories.
WalkOrder == <<"root", "X", "Y">>

Dirs == {WalkOrder[i] : i \in 1..Len(WalkOrder)}

\* The subdirectories os.listdir reports besides the regular files.
SubDirs(directory) ==
    IF directory = RootDir THEN <<[stem |-> "X", ext |-> ""], [stem |-> "Y", ext |-> ""]>>
    ELSE <<>>

R1 == [stem |-> "r1", ext |-> "tif"]
R2 == [stem |-> "r2", ext |-> "tif"]
SouthUp == [stem |-> "s", ext |-> "tif"]
Bad == [stem |-> "bad", ext |-> "tif"]
Notes == [stem |-> "notes", ext |-> "txt"]

FileNames == {R1, R2, SouthUp, Bad, Notes}

\* What gdal.Open finds in a file: ok = FALSE when the file cannot be opened
\* or parsed.  geo_transform is GDAL's six coefficients
\* (origin_x, pixel_width, 0, origin_y, 0, pixel_height).
Raster(filename) ==
    CASE filename = R1 ->
            [ok |-> TRUE, geo_transform |-> <<0, 1, 0, 10, 0, -1>>,
             RasterXSize |-> 10, RasterYSize |-> 10,
             projection |-> [wkt |-> "GEOGCS", authority |-> "4326"]]
      [] filename = R2 ->
            [ok |-> TRUE, geo_transform |-> <<20, 1, 0, 30, 0, -1>>,
             RasterXSize |-> 10, RasterYSize |-> 10,
             projection |-> [wkt |-> "GEOGCS", authority |-> "4326"]]
      [] filename = SouthUp ->
            [ok |-> TRUE, geo_transform |-> <<40, -1, 0, 0, 0, 1>>,
             RasterXSize |-> 10, RasterYSize |-> 10,
             projection |-> [wkt |-> "", authority |-> ""]]
      [] OTHER ->
            [ok |-> FALSE, geo_transform |-> <<0, 0, 0, 0, 0, 0>>,
             RasterXSize |-> 0, RasterYSize |-> 0,
             projection |-> [wkt |-> "", authority |-> ""]]

\* os.path.getsize
GetSize(filename) == IF filename = R1 THEN 100 ELSE 200

\* filename.endswith(".tif")
EndsWithTif(filename) == filename.ext = "tif"

(***************************************************************************)
(* create_index                                                            *)
(***************************************************************************)
\* gdal.UseExceptions() at import: a failing GDAL call raises.
UseExceptions == TRUE

\* gdal.Open(file_path): the dataset, None, or an exception.
GdalOpen(filename) ==
    IF Raster(filename).ok THEN "dataset"
    ELSE IF UseExceptions THEN "raise" ELSE "none"

get_epsg_code(dataset) ==
    IF dataset.projection.wkt = "" THEN "Unknown"
    ELSE IF dataset.projection.wkt \in {"PROJCS", "GEOGCS"}
            /\ dataset.projection.authority # ""
         THEN dataset.projection.authority
         ELSE "Unknown"

\* The header row the csv writer puts first.
Header == <<"ID", "FileName", "FileSize", "x1", "y1", "x2", "y2", "SRID", "Geometry4326">>

\* The f-string of the footprint: five coordinate pairs of a closed ring.
WktPolygon(min_x, min_y, max_x, max_y) ==
    [tag |-> "POLYGON",
     ring |-> <<<<min_x, min_y>>, <<max_x, min_y>>, <<max_x, max_y>>,
                <<min_x, max_y>>, <<min_x, min_y>>>>]

\* The row written for an opened dataset.
IndexRow(file_id, filename, dataset) ==
    LET geo_transform == dataset.geo_transform
        width  == dataset.RasterXSize
        height == dataset.RasterYSize
        min_x  == geo_transform[1]
        max_x  == min_x + width * geo_transform[2]
        min_y  == geo_transform[4] + height * geo_transform[6]
        max_y  == geo_transform[4]
        file_size == GetSize(filename)
        srid   == get_epsg_code(dataset)
        wkt_polygon == WktPolygon(min_x, min_y, max_x, max_y)
    IN  <<file_id, filename, file_size, min_x, min_y, max_x, max_y, srid, wkt_polygon>>

\* A build that advances the id for every directory entry it looks at.
CreateIndexBodyCountsEntries(st, filename) ==
    IF ~EndsWithTif(filename) THEN [st EXCEPT !.file_id = @ + 1]
    ELSE CASE GdalOpen(filename) = "raise" -> [st EXCEPT !.raised = TRUE]
           [] GdalOpen(filename) = "none"  -> [st EXCEPT !.file_id = @ + 1]
           [] OTHER ->
                [st EXCEPT !.rows = Append(@, IndexRow(st.file_id, filename, Raster(filename))),
                           !.file_id = @ + 1]

\* file_id += 1 after a row is written.
NextFileId(file_id) == file_id + 1

\* One iteration of the loop over os.listdir(directory).
\* st = [rows, file_id, raised]: the rows written so far, the next id, and
\* whether an exception has left the loop.
CreateIndexBody(st, filename) ==
    IF ~EndsWithTif(filename) THEN st
    ELSE CASE GdalOpen(filename) = "raise" -> [st EXCEPT !.raised = TRUE]
           [] GdalOpen(filename) = "none"  -> st
           [] OTHER ->
                [st EXCEPT !.rows = Append(@, IndexRow(st.file_id, filename, Raster(filename))),
                           !.file_id = NextFileId(@)]

RECURSIVE CreateIndexLoop(_, _)
CreateIndexLoop(st, files) ==
    IF files = <<>> \/ st.raised THEN st
    ELSE CreateIndexLoop(CreateIndexBody(st, Head(files)), Tail(files))

\* An index file: whether it exists, its header row and its data rows.
AbsentFile == [exists |-> FALSE, header |-> <<>>, rows |-> <<>>]

\* os.listdir(directory) inside create_index: the regular files, the
\* subdirectories, and the index file that open(.., 'w') has just created.
ListDir(directory) == listing[directory] \o SubDirs(directory) \o <<INDEX_FILE>>

\* create_index(directory): the file left on disk (the with-block closes it
\* also when an exception passes through) and whether the call raised.
create_index(directory) ==
    LET st == CreateIndexLoop([rows |-> <<>>, file_id |-> 0, raised |-> FALSE],
                              ListDir(directory))
    IN  [file |-> [exists |-> TRUE, header |-> Header, rows |-> st.rows],
         raised |-> st.raised]

(***************************************************************************)
(* query_index                                                             *)
(***************************************************************************)
\* GeoJSON query geometries.
PointAt(x, y) == [type |-> "Point", coordinates |-> <<<<x, y>>>>]

Box(x1, y1, x2, y2) ==
    [type |-> "Polygon",
     coordinates |-> <<<<x1, y1>>, <<x2, y1>>, <<x2, y2>>, <<x1, y2>>, <<x1, y1>>>>]

Garbage == [type |-> "Bogus", coordinates |-> <<>>]

QueryGeometries ==
    {PointAt(5, 5), PointAt(25, 25), PointAt(15, 15), Box(10, 10, 20, 20), Garbage}

\* ogr.CreateGeometryFromJson: the outcomes the call can have.  Input it
\* cannot parse gives None or an exception, depending on the input and on
\* the GDAL build (gdal.UseExceptions() is all the script enables).
CreateGeometryFromJson(query_geometry) ==
    IF query_geometry.type \in {"Point", "Polygon"}
    THEN {[kind |-> "geom", points |-> query_geometry.coordinates]}
    ELSE {[kind |-> "raise", points |-> <<>>], [kind |-> "none", points |-> <<>>]}

\* ogr.CreateGeometryFromWkt
CreateGeometryFromWkt(wkt) ==
    IF wkt.tag = "POLYGON" /\ Len(wkt.ring) = 5
    THEN [kind |-> "geom", points |-> wkt.ring]
    ELSE [kind |-> "none", points |-> <<>>]

MinOf(S) == CHOOSE x \in S : \A y \in S : x <= y
MaxOf(S) == CHOOSE x \in S : \A y \in S : x >= y

Xs(points) == {points[i][1] : i \in 1..Len(points)}
Ys(points) == {points[i][2] : i \in 1..Len(points)}

\* An intersection test that leaves out geometries that only touch.
IntersectsInterior(query_geom, file_geom) ==
    /\ MinOf(Xs(query_geom.points)) < MaxOf(Xs(file_geom.points))
    /\ MinOf(Xs(file_geom.points)) < MaxOf(Xs(query_geom.points))
    /\ MinOf(Ys(query_geom.points)) < MaxOf(Ys(file_geom.points))
    /\ MinOf(Ys(file_geom.points)) < MaxOf(Ys(query_geom.points))

\* query_geom.Intersects(file_geom) for a point or an axis-aligned rectangle
\* against an axis-aligned rectangle: the closed regions share a point.
Intersects(query_geom, file_geom) ==
    /\ MinOf(Xs(query_geom.points)) <= MaxOf(Xs(file_geom.points))
    /\ MinOf(Xs(file_geom.points)) <= MaxOf(Xs(query_geom.points))
    /\ MinOf(Ys(query_geom.points)) <= MaxOf(Ys(file_geom.points))
    /\ MinOf(Ys(file_geom.points)) <= MaxOf(Ys(query_geom.points))

\* csv.DictReader: row[name], the field under the header's column `name`.
Field(header, row, name) ==
    row[CHOOSE i \in 1..Len(header) : header[i] = name]

\* One iteration of the loop over the reader's rows.
\* st = [files, error]: overlapping_files so far, and the exception raised.
QueryBody(st, header, row, query_geom) ==
    LET file_geometry_wkt == Field(header, row, "Geometry4326")
        file_geom == CreateGeometryFromWkt(file_geometry_wkt)
    IN  IF query_geom.kind = "none" THEN [st EXCEPT !.error = "NullGeometry"]
        ELSE IF file_geom.kind = "none" THEN [st EXCEPT !.error = "CorruptIndex"]
        ELSE IF Intersects(query_geom, file_geom)
             THEN [st EXCEPT !.files = Append(@, Field(header, row, "FileName"))]
             ELSE st

RECURSIVE QueryLoop(_, _, _, _)
QueryLoop(st, header, rows, query_geom) ==
    IF rows = <<>> \/ st.error # "" THEN st
    ELSE QueryLoop(QueryBody(st, header, Head(rows), query_geom), header, Tail(rows),
                   query_geom)

\* An open that takes a missing index for an empty one.
OpenMissingAsEmpty(file) == "open"

\* open(index_path, mode='r'): fails when the file is absent.
OpenForRead(file) == IF file.exists THEN "open" ELSE "NotIndexed"

Raise(error) == [kind |-> "raise", error |-> error, files |-> <<>>]

\* query_index(directory, query_geometry) on the index file `file`, with
\* query_geom the outcome of parsing query_geometry.
query_index(file, query_geom) ==
    IF query_geom.kind = "raise" THEN Raise("MalformedGeometry")
    ELSE IF OpenForRead(file) # "open" THEN Raise(OpenForRead(file))
    ELSE LET st == QueryLoop([files |-> <<>>, error |-> ""], file.header,
                             file.rows, query_geom)
         IN  IF st.error # "" THEN Raise(st.error)
             ELSE [kind |-> "return", error |-> "", files |-> st.files]

(***************************************************************************)
(* mbr_overlap                                                             *)
(***************************************************************************)
\* An overlap test with the first comparison made non-strict.
mbr_overlap_open(polygon_mbr, file_mbr) ==
    ~(polygon_mbr[2] <= file_mbr[1] \/ polygon_mbr[1] > file_mbr[2]
      \/ polygon_mbr[4] < file_mbr[3] \/ polygon_mbr[3] > file_mbr[4])

\* Both arguments are (minX, maxX, minY, maxY).
mbr_overlap(polygon_mbr, file_mbr) ==
    LET p_min_x == polygon_mbr[1]
        p_max_x == polygon_mbr[2]
        p_min_y == polygon_mbr[3]
        p_max_y == polygon_mbr[4]
        f_min_x == file_mbr[1]
        f_max_x == file_mbr[2]
        f_min_y == file_mbr[3]
        f_max_y == file_mbr[4]
    IN  ~(p_max_x < f_min_x \/ p_min_x > f_max_x \/ p_max_y < f_min_y \/ p_min_y > f_max_y)

(***************************************************************************)
(* index_directories_recursively, one directory of the walk per step       *)
(***************************************************************************)
\* The filenames os.walk reports for dirpath: its regular files.
WalkFilenames(dirpath) ==
    listing[dirpath] \o (IF index[dirpath].exists THEN <<INDEX_FILE>> ELSE <<>>)

\* tif_files = [f for f in filenames if f.endswith('.tif')]
tif_files(dirpath) == SelectSeq(WalkFilenames(dirpath), EndsWithTif)

\* A walk that indexes every directory it visits.
EveryDirectoryHasTif(dirpath) == TRUE

\* if tif_files:
HasTifFiles(dirpath) == tif_files(dirpath) # <<>>

\* A walk that does not look for an existing index.
IndexNeverExists(dirpath) == FALSE

\* os.path.exists(index_path)
IndexExists(dirpath) == index[dirpath].exists

\* The position after dirpath in the walk; 0 once the walk is over.
Advance(p) == IF p = Len(WalkOrder) THEN 0 ELSE p + 1

NoQuery ==
    [called |-> FALSE, directory |-> RootDir, query_geometry |-> Garbage,
     kind |-> "none", error |-> "", files |-> <<>>]

NoMbr == [called |-> FALSE, a |-> <<0, 0, 0, 0>>, b |-> <<0, 0, 0, 0>>, result |-> FALSE]

\* main() calls index_directories_recursively(root_directory).
StartRun ==
    /\ pos = 0
    /\ pos' = 1
    /\ before' = index
    /\ outcome' = "running"
    /\ qres' = NoQuery
    /\ UNCHANGED <<listing, index, built, mbr>>

Step(p) ==
    /\ pos' = Advance(p)
    /\ outcome' = IF Advance(p) = 0 THEN "ok" ELSE outcome

\* A directory with no .tif file: nothing is done.
SkipNoTif ==
    /\ pos > 0
    /\ ~HasTifFiles(WalkOrder[pos])
    /\ Step(pos)
    /\ UNCHANGED <<listing, index, before, built, qres, mbr>>

\* "Index file already exists in {dirpath}. Skipping."
SkipExisting ==
    /\ pos > 0
    /\ HasTifFiles(WalkOrder[pos])
    /\ IndexExists(WalkOrder[pos])
    /\ Step(pos)
    /\ UNCHANGED <<listing, index, before, built, qres, mbr>>

\* create_index(dirpath) returns.
CreateIndexReturns ==
    /\ pos > 0
    /\ HasTifFiles(WalkOrder[pos])
    /\ ~IndexExists(WalkOrder[pos])
    /\ ~create_index(WalkOrder[pos]).raised
    /\ index' = [index EXCEPT ![WalkOrder[pos]] = create_index(WalkOrder[pos]).file]
    /\ built' = [built EXCEPT ![WalkOrder[pos]] = "completed"]
    /\ Step(pos)
    /\ UNCHANGED <<listing, before, qres, mbr>>

\* create_index(dirpath) raises: the exception leaves the walk and main().
CreateIndexRaises ==
    /\ pos > 0
    /\ HasTifFiles(WalkOrder[pos])
    /\ ~IndexExists(WalkOrder[pos])
    /\ create_index(WalkOrder[pos]).raised
    /\ index' = [index EXCEPT ![WalkOrder[pos]] = create_index(WalkOrder[pos]).file]
    /\ built' = [built EXCEPT ![WalkOrder[pos]] = "raised"]
    /\ pos' = 0
    /\ outcome' = "error"
    /\ UNCHANGED <<listing, before, qres, mbr>>

\* A caller's query_index(directory, query_geometry), between runs.
QueryIndex(directory, query_geometry) ==
    \E query_geom \in CreateGeometryFromJson(query_geometry) :
        /\ pos = 0
        /\ qres' = [called |-> TRUE, directory |-> directory,
                    query_geometry |-> query_geometry]
                   @@ query_index(index[directory], query_geom)
        /\ UNCHANGED <<listing, index, before, built, pos, outcome, mbr>>

Query ==
    \E directory \in Dirs, query_geometry \in QueryGeometries :
        QueryIndex(directory, query_geometry)

\* A caller's mbr_overlap(polygon_mbr, file_mbr).
MbrOverlap ==
    /\ ~mbr.called
    /\ mbr' = [mbr EXCEPT !.called = TRUE, !.result = mbr_overlap(mbr.a, mbr.b)]
    /\ UNCHANGED <<listing, index, before, built, pos, outcome, qres>>

(***************************************************************************)
(* Initial states and specifications                                       *)
(***************************************************************************)
\* The listings of at most n distinct files, in any order.
Listings(n) ==
    {<<>>} \cup UNION {{s \in [1..k -> FileNames] : \A i, j \in 1..k : s[i] = s[j] => i = j}
                        : k \in 1..n}

\* An index left by an earlier build of the directory, whose rasters may
\* have changed since.
PriorIndex ==
    [exists |-> TRUE, header |-> Header,
     rows |-> <<<<0, [stem |-> "old", ext |-> "tif"], 300, 0, 0, 10, 10, "4326",
                  WktPolygon(0, 0, 10, 10)>>>>]

InitTree(indexed) ==
    \E lr \in Listings(MaxFiles) :
      \E lx \in Listings(MaxFiles - Len(lr)) :
        \E ly \in Listings(MaxFiles - Len(lr) - Len(lx)) :
          /\ listing = [d \in Dirs |-> IF d = RootDir THEN lr ELSE IF d = "X" THEN lx ELSE ly]
          /\ index = [d \in Dirs |-> IF d \in indexed THEN PriorIndex ELSE AbsentFile]
          /\ before = index
          /\ built = [d \in Dirs |-> "no"]
          /\ pos = 0
          /\ outcome = "idle"
          /\ qres = NoQuery
          /\ mbr = NoMbr

\* Indexing a tree in which any directory may already hold an index.
Init == \E indexed \in SUBSET Dirs : InitTree(indexed)

Next == StartRun \/ SkipNoTif \/ SkipExisting \/ CreateIndexReturns \/ CreateIndexRaises

Spec == Init /\ [][Next]_vars

\* Indexing a tree that holds no index yet, and querying it between runs.
InitQuery == InitTree({})

NextQuery == Next \/ Query

SpecQuery == InitQuery /\ [][NextQuery]_vars

\* mbr_overlap on every pair of rectangles with minX <= maxX, minY <= maxY.
Rects ==
    {r \in [1..4 -> 0..MaxCoord] : r[1] <= r[2] /\ r[3] <= r[4]}

InitMbr ==
    /\ listing = [d \in Dirs |-> <<>>]
    /\ index = [d \in Dirs |-> AbsentFile]
    /\ before = index
    /\ built = [d \in Dirs |-> "no"]
    /\ pos = 0
    /\ outcome = "idle"
    /\ qres = NoQuery
    /\ mbr \in [called : {FALSE}, a : Rects, b : Rects, result : {FALSE}]

NextMbr == MbrOverlap

SpecMbr == InitMbr /\ [][NextMbr]_vars

(***************************************************************************)
(* Properties                                                              *)
(***************************************************************************)
\* The fields of an index file's rows under one column, in row order.
Column(file, name) == [i \in 1..Len(file.rows) |-> Field(file.header, file.rows[i], name)]

IsOpenableTif(filename) == EndsWithTif(filename) /\ Raster(filename).ok

\* The .tif files of a directory that the metadata provider can open.
OpenableTifs(directory) == SelectSeq(listing[directory], IsOpenableTif)

\* The directory lists no file whose name ends in .tif.
NoTif(directory) == \A i \in 1..Len(listing[directory]) : ~EndsWithTif(listing[directory][i])

\* C1: every build that create_index ran completed normally, and its index
\* holds exactly the directory's openable .tif files, the unopenable ones
\* skipped.
C1_UnopenableSkipped ==
    \A d \in Dirs :
        built[d] # "no" =>
            /\ built[d] = "completed"
            /\ Column(index[d], "FileName") = OpenableTifs(d)

\* C2: a directory that held an index file when the run started holds the
\* same file, unchanged, throughout and after the run.
C2_ExistingIndexUntouched ==
    \A d \in Dirs : before[d].exists => index[d] = before[d]

\* A run has ended that passed over a stale index in a directory with
\* rasters and over an index an earlier run had built.
C2_Witness ==
    /\ outcome = "ok"
    /\ \E d, e \in Dirs :
        /\ before[d] = PriorIndex /\ ~NoTif(d) /\ built[d] = "no"
        /\ built[e] = "completed" /\ before[e].exists /\ index[e] = before[e]

\* C3: an index file that create_index wrote holds one record for every
\* openable .tif file of its directory, never fewer.
C3_NeverPartial ==
    \A d \in Dirs :
        (built[d] # "no" /\ index[d].exists) =>
            Len(index[d].rows) = Len(OpenableTifs(d))

\* C4: a directory with no .tif file and no index file when the run started
\* has no index file during and after the run.
C4_NoTifNoIndex ==
    \A d \in Dirs : (NoTif(d) /\ ~before[d].exists) => ~index[d].exists

\* A run has ended that built an index in one directory and left another,
\* which holds a file but no .tif, without one.
C4_Witness ==
    /\ outcome = "ok"
    /\ \E d, e \in Dirs :
        /\ NoTif(d) /\ listing[d] # <<>> /\ ~index[d].exists
        /\ built[e] = "completed" /\ ~before[e].exists

\* C8: every record create_index wrote has x1 <= x2 and y1 <= y2.
C8_RectangleOrdered ==
    \A d \in Dirs :
        built[d] # "no" =>
            \A i \in 1..Len(index[d].rows) :
                /\ Column(index[d], "x1")[i] <= Column(index[d], "x2")[i]
                /\ Column(index[d], "y1")[i] <= Column(index[d], "y2")[i]

\* C9: in every index file the ids are 0, 1, ..., n-1 in row order, n the
\* number of records.
C9_SequentialIds ==
    \A d \in Dirs :
        index[d].exists =>
            \A i \in 1..Len(index[d].rows) : Column(index[d], "ID")[i] = i - 1

\* A completed index of two records or more, in a directory whose first
\* entry is not a .tif file.
C9_Witness ==
    \E d \in Dirs :
        /\ built[d] = "completed"
        /\ Len(index[d].rows) >= 2
        /\ ~EndsWithTif(listing[d][1])

\* The geometry is one the GeoJSON parser accepts.
WellFormed(query_geometry) == query_geometry.type \in {"Point", "Polygon"}

\* The grid on which every coordinate of a raster or a query lies.
Lattice == {<<5 * i, 5 * j>> : i, j \in 0..8}

\* The closed region bounded by an axis-aligned ring (or the single point)
\* holds the point p.
Holds(points, p) ==
    /\ \E i, j \in 1..Len(points) : points[i][1] <= p[1] /\ p[1] <= points[j][1]
    /\ \E i, j \in 1..Len(points) : points[i][2] <= p[2] /\ p[2] <= points[j][2]

\* The footprint stored in a row and the query geometry share a point.
FootprintMeets(file, i, query_geometry) ==
    \E p \in Lattice :
        /\ Holds(query_geometry.coordinates, p)
        /\ Holds(Column(file, "Geometry4326")[i].ring, p)

\* The file names of the rows from row i on whose footprint meets the query.
RECURSIVE MatchesFrom(_, _, _)
MatchesFrom(file, i, query_geometry) ==
    IF i > Len(file.rows) THEN <<>>
    ELSE (IF FootprintMeets(file, i, query_geometry)
          THEN <<Column(file, "FileName")[i]>> ELSE <<>>)
         \o MatchesFrom(file, i + 1, query_geometry)

\* C5: a query of an indexed directory with a well-formed geometry returns
\* the file names of exactly the records whose footprint meets the geometry,
\* each once, in row order; for r1.tif then r2.tif, a point at (5,5) gives
\* r1.tif, one at (25,25) r2.tif and one at (15,15) nothing.
C5_QueryExact ==
    (qres.called /\ WellFormed(qres.query_geometry) /\ index[qres.directory].exists) =>
        /\ qres.kind = "return"
        /\ qres.files = MatchesFrom(index[qres.directory], 1, qres.query_geometry)
        /\ Column(index[qres.directory], "FileName") = <<R1, R2>> =>
              /\ qres.query_geometry = PointAt(5, 5) => qres.files = <<R1>>
              /\ qres.query_geometry = PointAt(25, 25) => qres.files = <<R2>>
              /\ qres.query_geometry = PointAt(15, 15) => qres.files = <<>>

\* A query returned r2.tif then r1.tif, the order of their rows, from an
\* index of three records.
C5_Witness ==
    /\ qres.called
    /\ qres.kind = "return"
    /\ qres.files = <<R2, R1>>
    /\ Len(index[qres.directory].rows) = 3

\* C6: a query of an indexed directory with a geometry that cannot be parsed
\* fails with the malformed-geometry error (raised by the parser, or on the
\* first use of the null geometry) and returns no list.
C6_MalformedFails ==
    (qres.called /\ ~WellFormed(qres.query_geometry) /\ index[qres.directory].exists) =>
        /\ qres.kind = "raise"
        /\ qres.error \in {"MalformedGeometry", "NullGeometry"}

\* C7 as stated: a query of a directory without an index file fails with
\* the NotIndexed error.
C7_NotIndexedError ==
    (qres.called /\ ~index[qres.directory].exists) =>
        /\ qres.kind = "raise"
        /\ qres.error = "NotIndexed"

\* C7 as amended: a query of a directory without an index file fails and
\* returns no list, with NotIndexed unless parsing the geometry has raised
\* first; it creates no index file and changes nothing in the tree.  (The
\* steps that begin and end between runs, pos = 0, are the queries.)
C7_AbsentIndexFails ==
    [][(pos = 0 /\ pos' = 0 /\ qres'.called /\ ~index[qres'.directory].exists) =>
          /\ qres'.kind = "raise"
          /\ qres'.files = <<>>
          /\ \/ qres'.error = "NotIndexed"
             \/ qres'.error = "MalformedGeometry" /\ ~WellFormed(qres'.query_geometry)
          /\ ~index'[qres'.directory].exists
          /\ index' = index
          /\ listing' = listing]_vars

\* A query with a well-formed geometry failed with NotIndexed on a directory
\* that holds rasters but no index file.
C7_Witness ==
    /\ qres.called
    /\ WellFormed(qres.query_geometry)
    /\ qres.error = "NotIndexed"
    /\ ~index[qres.directory].exists
    /\ ~NoTif(qres.directory)

\* The two rectangles share a point of the grid.
SharePoint(a, b) ==
    \E x, y \in 0..MaxCoord :
        /\ a[1] <= x /\ x <= a[2] /\ a[3] <= y /\ y <= a[4]
        /\ b[1] <= x /\ x <= b[2] /\ b[3] <= y /\ y <= b[4]

\* C10: for rectangles (minX, maxX, minY, maxY) with minX <= maxX and
\* minY <= maxY, mbr_overlap is true exactly when the closed rectangles
\* share a point: touching edges and corners overlap, and a.maxX < b.minX
\* does not.
C10_ClosedOverlap ==
    mbr.called =>
        /\ mbr.result = SharePoint(mbr.a, mbr.b)
        /\ mbr.a[2] < mbr.b[1] => ~mbr.result
        /\ (mbr.a[2] = mbr.b[1] /\ mbr.a[4] = mbr.b[3]) => mbr.result

\* mbr_overlap answered true for two rectangles of positive area that touch
\* only at a corner.
C10_Witness ==
    /\ mbr.called
    /\ mbr.result
    /\ mbr.a[1] < mbr.a[2] /\ mbr.a[3] < mbr.a[4]
    /\ mbr.b[1] < mbr.b[2] /\ mbr.b[3] < mbr.b[4]
    /\ mbr.a[2] = mbr.b[1] /\ mbr.a[4] = mbr.b[3]

====
